---- MODULE Spec2Model ----
(***************************************************************************)
(* A model of the ePub analysis pipeline of services/epubProcessor.ts      *)
(* (analyzeEpub): archive lookup, container and OPF parsing, text          *)
(* extraction over the spine, keyword scoring and aggregation.             *)
(* Text is a sequence of one-character strings; JavaScript objects are     *)
(* sequences of key/value records in insertion order.                      *)
(***************************************************************************)
EXTENDS Integers, Sequences, FiniteSets, TLC

\* ------------------------------------------------------------------ bounds

\* longest spine (reading order) drawn for an OPF document
MaxSpine == 3
\* most (category, keyword) entries of a drawn genre table
MaxEntries == 3
MaxText == 4
MaxKeyword == 2
MaxCalls == 3

\* ------------------------------------------------------------- characters

LowerAlpha == <<"a","b","c","d","e","f","g","h","i","j","k","l","m",
                "n","o","p","q","r","s","t","u","v","w","x","y","z">>
UpperAlpha == <<"A","B","C","D","E","F","G","H","I","J","K","L","M",
                "N","O","P","Q","R","S","T","U","V","W","X","Y","Z">>
DigitChars == <<"0","1","2","3","4","5","6","7","8","9">>

Range(s) == { s[i] : i \in DOMAIN s }

Digits == Range(DigitChars)
LowerLetters == Range(LowerAlpha)
UpperLetters == Range(UpperAlpha)

IsDigit(c) == c \in Digits
DigitValues == [c \in Digits |-> (CHOOSE i \in DOMAIN DigitChars : DigitChars[i] = c) - 1]
DigitVal(c) == DigitValues[c]

UpperOf == [c \in LowerLetters |-> UpperAlpha[CHOOSE i \in DOMAIN LowerAlpha : LowerAlpha[i] = c]]
LowerOf == [c \in UpperLetters |-> LowerAlpha[CHOOSE i \in DOMAIN UpperAlpha : UpperAlpha[i] = c]]

\* String.prototype.toUpperCase on one character (the 'i' flag's canonicalisation)
ToUpper(c) == IF c \in LowerLetters THEN UpperOf[c] ELSE c

\* String.prototype.toLowerCase on one character
ToLower(c) == IF c \in UpperLetters THEN LowerOf[c] ELSE c

\* the regular expression class \w: [A-Za-z0-9_]
WordChars == LowerLetters \cup UpperLetters \cup Digits \cup {"_"}
IsWordChar(c) == c \in WordChars

\* the characters String.prototype.trim removes (those of the model's alphabet)
Whitespace == {" ", "\n", "\t"}

\* !str.trim(): the string is empty or only whitespace
IsBlank(s) == \A i \in DOMAIN s : s[i] \in Whitespace

RECURSIVE Flatten(_)
\* concatenation of a sequence of texts
Flatten(ss) == IF ss = <<>> THEN <<>> ELSE Head(ss) \o Flatten(Tail(ss))

\* String.prototype.indexOf(c): first index of c in s, 0 when absent
IndexOf(s, c) ==
  IF \E i \in DOMAIN s : s[i] = c
    THEN CHOOSE i \in DOMAIN s : s[i] = c /\ \A j \in 1..(i-1) : s[j] # c
    ELSE 0

\* String.prototype.includes(sub), case-sensitive
Includes(s, sub) ==
  \E i \in 0..(Len(s) - Len(sub)) :
    \A j \in 1..Len(sub) : s[i + j] = sub[j]

\* ------------------------------------------------- regular expressions

\* the characters escapeRegex puts a backslash before: . + ? ^ $ { } ( ) | [ ] \
RegexSpecial == {".", "+", "?", "^", "$", "{", "}", "(", ")", "|", "[", "]", "\\"}

RECURSIVE escapeRegexStar(_)
escapeRegexStar(str) ==
  IF str = <<>> THEN <<>>
  ELSE LET c == Head(str) IN
       (IF c \in RegexSpecial \cup {"*"} THEN <<"\\", c>> ELSE <<c>>)
       \o escapeRegexStar(Tail(str))

RECURSIVE escapeRegex(_)
\* str.replace(/[.+?^${}()|[\]\\]/g, '\\$&').replace(/\*/g, '\\w')
escapeRegex(str) ==
  IF str = <<>> THEN <<>>
  ELSE LET c == Head(str) IN
       (IF c \in RegexSpecial THEN <<"\\", c>>
        ELSE IF c = "*" THEN <<"\\", "w">>
        ELSE <<c>>) \o escapeRegex(Tail(str))

\* `\\b${escapeRegex(keyword)}`
KeywordPattern(keyword) == <<"\\", "b">> \o escapeRegex(keyword)

RECURSIVE CompileRegex(_)
\* new RegExp(pattern): the atoms of a pattern that holds only literals,
\* escaped literals, \b and \w
CompileRegex(p) ==
  IF p = <<>> THEN <<>>
  ELSE IF Head(p) = "\\" /\ Len(p) >= 2
    THEN LET e == p[2] IN
         << IF e = "b" THEN [kind |-> "boundary", c |-> ""]
            ELSE IF e = "w" THEN [kind |-> "word", c |-> ""]
            ELSE [kind |-> "lit", c |-> e] >>
         \o CompileRegex(SubSeq(p, 3, Len(p)))
    ELSE << [kind |-> "lit", c |-> Head(p)] >> \o CompileRegex(Tail(p))

\* \b at position pos (between text[pos-1] and text[pos])
AtWordBoundary(text, pos) ==
  LET before == pos > 1 /\ pos - 1 <= Len(text) /\ IsWordChar(text[pos - 1])
      after  == pos >= 1 /\ pos <= Len(text) /\ IsWordChar(text[pos])
  IN before # after

RECURSIVE MatchAt(_, _, _, _)
\* the position after a match of atoms[k..] starting at pos, 0 when none
MatchAt(atoms, k, text, pos) ==
  IF k > Len(atoms) THEN pos
  ELSE LET a == atoms[k] IN
    IF a.kind = "boundary"
      THEN IF AtWordBoundary(text, pos) THEN MatchAt(atoms, k + 1, text, pos) ELSE 0
    ELSE IF pos > Len(text) THEN 0
    ELSE IF a.kind = "word"
      THEN IF IsWordChar(text[pos]) THEN MatchAt(atoms, k + 1, text, pos + 1) ELSE 0
    ELSE IF ToUpper(text[pos]) = ToUpper(a.c)
      THEN MatchAt(atoms, k + 1, text, pos + 1) ELSE 0

RECURSIVE CountFrom(_, _, _)
\* text.match(/.../gi): the number of non-overlapping matches from pos on
CountFrom(atoms, text, pos) ==
  IF pos > Len(text) + 1 THEN 0
  ELSE LET e == MatchAt(atoms, 1, text, pos) IN
    IF e = 0 THEN CountFrom(atoms, text, pos + 1)
    ELSE 1 + CountFrom(atoms, text, IF e = pos THEN pos + 1 ELSE e)

\* matches ? matches.length : 0
KeywordCount(text, keyword) ==
  CountFrom(CompileRegex(KeywordPattern(keyword)), text, 1)

\* ---------------------------------------------------- JavaScript objects

\* an object is the sequence of its own properties [k, v] in insertion order

\* a canonical array-index key ("0", "7", "42"): such keys are listed first
IsArrayIndex(k) ==
  /\ Len(k) > 0
  /\ \A i \in DOMAIN k : IsDigit(k[i])
  /\ (Len(k) = 1 \/ k[1] # "0")

RECURSIVE NumVal(_)
\* the number an array-index key denotes
NumVal(k) ==
  IF k = <<>> THEN 0
  ELSE 10 * NumVal(SubSeq(k, 1, Len(k) - 1)) + DigitVal(k[Len(k)])

ObjHas(o, key) == \E i \in DOMAIN o : o[i].k = key

ObjGetOwn(o, key) == o[CHOOSE i \in DOMAIN o : o[i].k = key].v

ObjSetOnce(o, key, val) ==
  IF ObjHas(o, key) THEN o ELSE Append(o, [k |-> key, v |-> val])

\* o[key] = val: an existing property keeps its place, a new one is appended
ObjSet(o, key, val) ==
  IF ObjHas(o, key)
    THEN [i \in DOMAIN o |-> IF o[i].k = key THEN [k |-> key, v |-> val] ELSE o[i]]
    ELSE Append(o, [k |-> key, v |-> val])

RECURSIVE InsertAsc(_, _)
\* e put into a sequence of entries kept ascending by numeric key
InsertAsc(e, sorted) ==
  IF sorted = <<>> THEN <<e>>
  ELSE IF NumVal(e.k) < NumVal(Head(sorted).k) THEN <<e>> \o sorted
  ELSE <<Head(sorted)>> \o InsertAsc(e, Tail(sorted))

RECURSIVE SortAsc(_)
SortAsc(es) == IF es = <<>> THEN <<>> ELSE InsertAsc(Head(es), SortAsc(Tail(es)))

IsIndexEntry(e) == IsArrayIndex(e.k)
IsNameEntry(e) == ~IsArrayIndex(e.k)

\* Object.entries(o): array-index keys ascending, then the others in
\* insertion order (OrdinaryOwnPropertyKeys)
ObjEntries(o) ==
  SortAsc(SelectSeq(o, IsIndexEntry)) \o SelectSeq(o, IsNameEntry)

\* some property names every {} inherits from Object.prototype
ObjectPrototypeKeys ==
  { <<"c","o","n","s","t","r","u","c","t","o","r">>,
    <<"t","o","S","t","r","i","n","g">>,
    <<"v","a","l","u","e","O","f">> }

\* JavaScript values of allHitsMap: a number, undefined, an inherited
\* function, or the string a function + number + ... concatenates to
JsNum(n) == [t |-> "num", n |-> n, s |-> <<>>]
JsUndefined == [t |-> "undef", n |-> 0, s |-> <<>>]
JsFunction == [t |-> "fn", n |-> 0, s |-> <<>>]
JsString(parts) == [t |-> "str", n |-> 0, s |-> parts]

\* allHitsMap[keyword]: the own property, else what the prototype chain holds
ObjGet(o, key) ==
  IF ObjHas(o, key) THEN ObjGetOwn(o, key)
  ELSE IF key \in ObjectPrototypeKeys THEN JsFunction
  ELSE JsUndefined

\* v || 0
OrZero(v) == IF v.t = "undef" \/ (v.t = "num" /\ v.n = 0) THEN JsNum(0) ELSE v

\* v + count: addition of numbers, concatenation otherwise
JsAdd(v, count) ==
  IF v.t = "num" THEN JsNum(v.n + count)
  ELSE JsString(Append(v.s, count))

\* ---------------------------------------------------------------- sorting

\* the comparator (a, b) => b.key - a.key is negative: a goes before b
KeyBefore(a, b) == b.key - a.key < 0

RECURSIVE InsertStable(_, _)
\* x put after every element it is not strictly before
InsertStable(x, sorted) ==
  IF sorted = <<>> THEN <<x>>
  ELSE IF KeyBefore(x, sorted[Len(sorted)])
    THEN InsertStable(x, SubSeq(sorted, 1, Len(sorted) - 1))
         \o <<sorted[Len(sorted)]>>
    ELSE Append(sorted, x)

RECURSIVE StableSort(_)
\* Array.prototype.sort with a consistent comparator on records [key, item]:
\* descending by key, stable (ES2019)
StableSort(list) ==
  IF list = <<>> THEN <<>>
  ELSE InsertStable(list[Len(list)], StableSort(SubSeq(list, 1, Len(list) - 1)))

Orderings(list) ==
  LET n == Len(list)
      P == { f \in [1..n -> 1..n] : \A i, j \in 1..n : i # j => f[i] # f[j] }
  IN { [i \in 1..n |-> list[f[i]]] : f \in P }

\* genreResults.sort((a, b) => b.score - a.score)
SortResults(results) ==
  LET keyed == [i \in DOMAIN results |-> [key |-> results[i].score, item |-> results[i]]]
      sorted == StableSort(keyed)
  IN [i \in DOMAIN sorted |-> sorted[i].item]

\* .sort((a, b) => b.count - a.count): with a count that is no number the
\* comparator yields NaN, is inconsistent, and the order is
\* implementation-defined
SortHitsOutcomes(hits) ==
  IF \A i \in DOMAIN hits : hits[i].count.t = "num"
    THEN LET keyed == [i \in DOMAIN hits |-> [key |-> hits[i].count.n, item |-> hits[i]]]
             sorted == StableSort(keyed)
         IN { [i \in DOMAIN sorted |-> sorted[i].item] }
    ELSE Orderings(hits)

\* ---------------------------------------------------------------- scoring

RECURSIVE ScoreKeywords(_, _, _, _)
\* the loop over a category's keywords: hits[keyword] = count and
\* totalScore += count for each keyword with count > 0
ScoreKeywords(text, keywords, hits, totalScore) ==
  IF keywords = <<>> THEN [hits |-> hits, score |-> totalScore]
  ELSE LET keyword == Head(keywords)
           count == KeywordCount(text, keyword)
       IN IF count > 0
            THEN ScoreKeywords(text, Tail(keywords), ObjSet(hits, keyword, count),
                               totalScore + count)
            ELSE ScoreKeywords(text, Tail(keywords), hits, totalScore)

KeepEveryCategory(totalScore) == TRUE

\* if (totalScore > 0) results.push(...)
KeepCategory(totalScore) == totalScore > 0

RECURSIVE ScoreEntries(_, _)
ScoreEntries(text, entries) ==
  IF entries = <<>> THEN <<>>
  ELSE LET e == Head(entries)
           r == ScoreKeywords(text, e.v, <<>>, 0)
       IN (IF KeepCategory(r.score)
             THEN << [name |-> e.k, score |-> r.score, hits |-> r.hits] >>
             ELSE <<>>)
          \o ScoreEntries(text, Tail(entries))

\* for (const [name, keywords] of Object.entries(TABLE)) { ... }: the
\* results in iteration order, before sorting
ScoreTable(text, table) == ScoreEntries(text, ObjEntries(table))

RECURSIVE MergeHits(_, _)
\* allHitsMap[keyword] = (allHitsMap[keyword] || 0) + count over entries
MergeHits(map, entries) ==
  IF entries = <<>> THEN map
  ELSE LET e == Head(entries) IN
       MergeHits(ObjSet(map, e.k, JsAdd(OrZero(ObjGet(map, e.k)), e.v)),
                 Tail(entries))

RECURSIVE AggregateHits(_, _)
\* for (const result of [...genreResults, ...tagResults])
AggregateHits(map, results) ==
  IF results = <<>> THEN map
  ELSE AggregateHits(MergeHits(map, ObjEntries(Head(results).hits)), Tail(results))

\* Object.entries(allHitsMap).map(([keyword, count]) => ({ keyword, count }))
HitList(map) ==
  LET es == ObjEntries(map)
  IN [i \in DOMAIN es |-> [keyword |-> es[i].k, count |-> es[i].v]]

\* ------------------------------------------------------- markup documents

\* A file's content is the sequence of its markup elements.  An element has
\* a tag name, the attributes the pipeline reads (id or idref, full-path or
\* href, media-type; an absent attribute is empty) and its text.  The name
\* "#error" marks a place where the markup is not well-formed XML.
Elem(name, id, path, mt, text) ==
  [name |-> name, id |-> id, path |-> path, mt |-> mt, text |-> text]

SyntaxError == Elem("#error", "", <<>>, <<>>, <<>>)

IsWellFormed(content) == \A i \in DOMAIN content : content[i].name # "#error"

\* what DOMParser makes of XML that is not well-formed: a document holding
\* only <parsererror> ("discard"), or <parsererror> beside the elements
\* parsed before the error ("recover"), depending on the browser
XmlEngines == {"discard", "recover"}

\* xmlParser.parseFromString(str, 'application/xml'): never throws
ParseXml(content, eng) ==
  IF IsWellFormed(content) THEN content
  ELSE IF eng = "discard" THEN <<>>
  ELSE SubSeq(content, 1,
              (CHOOSE i \in DOMAIN content :
                 /\ content[i].name = "#error"
                 /\ \A j \in 1..(i - 1) : content[j].name # "#error") - 1)

\* doc.querySelectorAll(name), in document order
QuerySelectorAll(doc, name) ==
  LET Named(e) == e.name = name IN SelectSeq(doc, Named)

\* the elements the text/html parser puts into <head> while no element of
\* the body has been seen
HeadElements == {"title", "meta", "link", "script", "style"}

\* doc.body.textContent || "": the text of every node under <body>, the
\* content of script and style elements there included; <body> begins at
\* the first element that cannot stand in <head>
getHtmlTextContent(content) ==
  LET bodyAt == { i \in DOMAIN content : content[i].name \notin HeadElements }
      InBody(i) == \E j \in bodyAt : j <= i
      body == [i \in DOMAIN content |-> IF InBody(i) THEN content[i].text ELSE <<>>]
  IN Flatten(body)

\* ------------------------------------------------------------------ paths

RECURSIVE Split(_, _)
\* str.split(sep) for a one-character separator
Split(s, sep) ==
  LET i == IndexOf(s, sep) IN
  IF i = 0 THEN <<s>>
  ELSE <<SubSeq(s, 1, i - 1)>> \o Split(SubSeq(s, i + 1, Len(s)), sep)

RECURSIVE Join(_, _)
Join(segs, sep) ==
  IF segs = <<>> THEN <<>>
  ELSE IF Len(segs) = 1 THEN segs[1]
  ELSE segs[1] \o <<sep>> \o Join(Tail(segs), sep)

\* s up to, not including, the first c
Before(s, c) == LET i == IndexOf(s, c) IN IF i = 0 THEN s ELSE SubSeq(s, 1, i - 1)

RECURSIVE RemoveDots(_, _)
\* the URL parser's handling of "." and ".." segments
RemoveDots(segs, out) ==
  IF segs = <<>> THEN out
  ELSE LET g == Head(segs)
           last == Len(segs) = 1
       IN IF g = <<".">>
            THEN RemoveDots(Tail(segs), IF last THEN Append(out, <<>>) ELSE out)
          ELSE IF g = <<".", ".">>
            THEN LET popped == IF out = <<>> THEN out ELSE SubSeq(out, 1, Len(out) - 1)
                 IN RemoveDots(Tail(segs), IF last THEN Append(popped, <<>>) ELSE popped)
          ELSE RemoveDots(Tail(segs), Append(out, g))

RECURSIVE PercentEncode(_)
\* the URL parser's percent-encoding of a path (of the model's alphabet only
\* the space is in the path percent-encode set besides # and ?)
PercentEncode(s) ==
  IF s = <<>> THEN <<>>
  ELSE (IF Head(s) = " " THEN <<"%", "2", "0">> ELSE <<Head(s)>>)
       \o PercentEncode(Tail(s))

\* new URL(ref, base).pathname for a relative reference and a file: base whose
\* pathname is basePathname: the fragment and the query are dropped, the
\* path is merged with the base's directory, dot segments are removed
UrlPathname(ref, basePathname) ==
  LET path == Before(Before(ref, "#"), "?")
      baseSegs == Split(Tail(basePathname), "/")
      baseDir == SubSeq(baseSegs, 1, Len(baseSegs) - 1)
      segs == IF path = <<>> THEN baseSegs
              ELSE IF Head(path) = "/" THEN RemoveDots(Split(Tail(path), "/"), <<>>)
              ELSE RemoveDots(baseDir \o Split(path, "/"), <<>>)
  IN <<"/">> \o PercentEncode(Join(segs, "/"))

\* printable ASCII, code 32 upward ("grave" stands for the character of
\* code 96, which a TLA+ string cannot hold)
AsciiPrintable ==
  <<" ","!","\"","#","$","%","&","'","(",")","*","+",",","-",".","/",
    "0","1","2","3","4","5","6","7","8","9",":",";","<","=",">","?",
    "@","A","B","C","D","E","F","G","H","I","J","K","L","M","N","O",
    "P","Q","R","S","T","U","V","W","X","Y","Z","[","\\","]","^","_",
    "grave","a","b","c","d","e","f","g","h","i","j","k","l","m","n","o",
    "p","q","r","s","t","u","v","w","x","y","z","{","|","}","~">>

HexChars == <<"0","1","2","3","4","5","6","7","8","9","a","b","c","d","e","f">>
HexDigits == Range(HexChars)
HexValues == [c \in HexDigits |-> (CHOOSE i \in DOMAIN HexChars : HexChars[i] = c) - 1]
IsHex(c) == ToLower(c) \in HexDigits
HexVal(c) == HexValues[ToLower(c)]

RECURSIVE decodeURIComponent(_)
\* decodeURIComponent(s): [ok, text]; ok is FALSE where it throws URIError
\* (a % that two hex digits do not follow, or a byte that is no ASCII
\* character and so needs a UTF-8 sequence the pools do not hold)
decodeURIComponent(s) ==
  IF s = <<>> THEN [ok |-> TRUE, text |-> <<>>]
  ELSE IF Head(s) # "%"
    THEN LET r == decodeURIComponent(Tail(s))
         IN [ok |-> r.ok, text |-> <<Head(s)>> \o r.text]
  ELSE IF Len(s) < 3 \/ ~IsHex(s[2]) \/ ~IsHex(s[3])
    THEN [ok |-> FALSE, text |-> <<>>]
  ELSE LET code == 16 * HexVal(s[2]) + HexVal(s[3])
           r == decodeURIComponent(SubSeq(s, 4, Len(s)))
       IN IF code < 32 \/ code > 126 THEN [ok |-> FALSE, text |-> <<>>]
          ELSE [ok |-> r.ok, text |-> <<AsciiPrintable[code - 31]>> \o r.text]

\* decodeURIComponent(new URL(chapterHref, new URL(opfPath, FAKE_BASE))
\*   .pathname.substring(1).split('#')[0])
ChapterFilePath(chapterHref, opf) ==
  LET base == UrlPathname(opf, <<"/">>)
      pathname == UrlPathname(chapterHref, base)
  IN decodeURIComponent(Split(Tail(pathname), "#")[1])

\* ---------------------------------------------------------------- archive

\* zip.files: the archive's entries [k: path, v: content] (JSZip)
Entry(path, content) == [k |-> path, v |-> content]

ZipFileAnyCase(zip, path) ==
  LET Same(e) == /\ Len(e.k) = Len(path)
                 /\ \A j \in DOMAIN path : ToLower(e.k[j]) = ToLower(path[j])
      found == SelectSeq(zip.files, Same)
  IN IF found = <<>> THEN <<>> ELSE << found[1].v >>

\* zip.file(path): an exact, case-sensitive lookup; <<content>> for the
\* entry (read later with async('string')), <<>> for null
ZipFile(zip, path) ==
  LET Named(e) == e.k = path
      found == SelectSeq(zip.files, Named)
  IN IF found = <<>> THEN <<>> ELSE << found[1].v >>

\* an entry of readLog: which read of the run it was, and of which path
Read(kind, path) == [kind |-> kind, path |-> path]

\* the fixed entry 'META-INF/container.xml'
ContainerPath ==
  <<"M","E","T","A","-","I","N","F","/",
    "c","o","n","t","a","i","n","e","r",".","x","m","l">>

\* --------------------------------------------------------------- messages

ErrArchive == "JSZip.loadAsync rejected"
ErrContainer == "META-INF/container.xml not found in epub."
ErrRootfile == "Could not find rootfile path in container.xml."
ErrOpf == "OPF file not found at path"
ErrUri == "URIError: URI malformed"
ErrNoText == "Could not extract any text content from the ePub spine files."

\* ------------------------------------------------------------------ state

VARIABLES
  archive,          \* the ePub file: [loadOk, files]
  engine,           \* how this browser's DOMParser treats malformed XML
  GENRE_KEYWORDS,   \* the genre table, an object literal
  TAG_KEYWORDS,     \* the tag table, an object literal
  pc,               \* where analyzeEpub stands
  opfPath,
  manifestItems,
  spineRefs,
  idx,              \* the position of the for-of loop over spineRefs
  fullTextContent,
  seenPaths,
  genreResults,
  tagResults,
  allHits,
  outcome,          \* the promise analyzeEpub returned
  result,           \* <<value>> once fulfilled
  error,            \* the message once rejected
  readLog,          \* the reads made with async('string'), in order
  sortImpl,         \* what this engine's Array.prototype.sort has been seen to
                    \* return for a comparator that is not consistent
  earlier,          \* <<[outcome, result, error]>> of the earlier call, if any
  file,             \* App: the selected file, <<>> for null
  processingState,  \* App: IDLE, PROCESSING, SUCCESS or ERROR
  statusMessage,    \* App: the pieces of the message, <<>> for ''
  display,          \* App: [genreResults, tagResults, allHits]
  calls,            \* App: the calls of epubProcessor.analyze not yet settled
  started           \* App: how many calls handleProcess has made

inputs == <<archive, engine, GENRE_KEYWORDS, TAG_KEYWORDS>>
locals == <<opfPath, manifestItems, spineRefs, idx, fullTextContent, seenPaths>>
scores == <<genreResults, tagResults, allHits>>
app == <<file, processingState, statusMessage, display, calls, started>>
core == <<inputs, pc, locals, scores, outcome, result, error, readLog, sortImpl, earlier>>
vars == <<core, app>>

\* ------------------------------------------------------------- operations

\* what the App shows before and between analyses
NoResults == [genreResults |-> <<>>, tagResults |-> <<>>, allHits |-> <<>>]

\* a throw inside analyzeEpub: the promise is rejected and holds no value
RejectWithPartial(msg) ==
  /\ pc' = "done"
  /\ outcome' = "rejected"
  /\ error' = msg
  /\ result' = << [genres |-> genreResults, tags |-> tagResults, allHits |-> allHits] >>

Reject(msg) ==
  /\ pc' = "done"
  /\ outcome' = "rejected"
  /\ error' = msg
  /\ result' = <<>>

\* const zip = await JSZip.loadAsync(file)
Load ==
  /\ pc = "load"
  /\ IF archive.loadOk
       THEN pc' = "container" /\ UNCHANGED <<outcome, result, error>>
       ELSE Reject(ErrArchive)
  /\ UNCHANGED <<inputs, locals, scores, readLog, sortImpl, earlier>>
  /\ UNCHANGED app

QuerySelectorLast(doc, name) ==
  LET all == QuerySelectorAll(doc, name)
  IN IF all = <<>> THEN <<>> ELSE <<all[Len(all)]>>

\* doc.querySelector(name): the first match, <<>> for null
QuerySelector(doc, name) ==
  LET all == QuerySelectorAll(doc, name)
  IN IF all = <<>> THEN <<>> ELSE <<all[1]>>

\* step 1: find the OPF path in META-INF/container.xml
LocateContainer ==
  /\ pc = "container"
  /\ LET containerFile == ZipFile(archive, ContainerPath) IN
     IF containerFile = <<>>
       THEN /\ Reject(ErrContainer)
            /\ UNCHANGED <<opfPath, readLog>>
       ELSE LET containerDoc == ParseXml(containerFile[1], engine)
                rootfile == QuerySelector(containerDoc, "rootfile")
            IN /\ readLog' = Append(readLog, Read("container", ContainerPath))
               /\ IF rootfile = <<>> \/ rootfile[1].path = <<>>
                    THEN Reject(ErrRootfile) /\ UNCHANGED opfPath
                    ELSE /\ opfPath' = rootfile[1].path
                         /\ pc' = "opf"
                         /\ UNCHANGED <<outcome, result, error>>
  /\ UNCHANGED <<inputs, manifestItems, spineRefs, idx, fullTextContent,
                 seenPaths, scores, sortImpl, earlier>>
  /\ UNCHANGED app

\* id && href && (mediaType?.includes('html') || mediaType?.includes('xhtml'))
IsHtmlItem(item) ==
  /\ item.id # ""
  /\ item.path # <<>>
  /\ \/ Includes(item.mt, <<"h","t","m","l">>)
     \/ Includes(item.mt, <<"x","h","t","m","l">>)

RECURSIVE BuildManifest(_, _)
\* manifestItems[id] = href for every qualifying item, in document order
BuildManifest(items, map) ==
  IF items = <<>> THEN map
  ELSE BuildManifest(Tail(items),
         IF IsHtmlItem(Head(items))
           THEN ObjSet(map, Head(items).id, Head(items).path)
           ELSE map)

\* step 2: parse the OPF file into the manifest and the spine
ParseOpf ==
  /\ pc = "opf"
  /\ LET opfFile == ZipFile(archive, opfPath) IN
     IF opfFile = <<>>
       THEN /\ Reject(ErrOpf)
            /\ UNCHANGED <<manifestItems, spineRefs, idx, readLog>>
       ELSE LET opfDoc == ParseXml(opfFile[1], engine)
                itemrefs == QuerySelectorAll(opfDoc, "itemref")
            IN /\ readLog' = Append(readLog, Read("opf", opfPath))
               /\ manifestItems' = BuildManifest(QuerySelectorAll(opfDoc, "item"), <<>>)
               /\ spineRefs' = [i \in DOMAIN itemrefs |-> itemrefs[i].id]
               /\ idx' = 1
               /\ pc' = "spine"
               /\ UNCHANGED <<outcome, result, error>>
  /\ UNCHANGED <<inputs, opfPath, fullTextContent, seenPaths, scores, sortImpl,
                 earlier>>
  /\ UNCHANGED app

SeenKeyById(idref, chapterFilePath) == <<idref>>

\* what seenPaths holds for a spine item: its resolved path
SeenKey(idref, chapterFilePath) == chapterFilePath

\* step 3: one iteration of the loop over spineRefs
SpineStep ==
  /\ pc = "spine"
  /\ idx <= Len(spineRefs)
  /\ LET idref == spineRefs[idx] IN
     IF idref = "" \/ ~ObjHas(manifestItems, idref)
       THEN /\ idx' = idx + 1
            /\ UNCHANGED <<pc, fullTextContent, seenPaths, outcome, result, error, readLog>>
       ELSE LET chapterHref == ObjGetOwn(manifestItems, idref)
                decoded == ChapterFilePath(chapterHref, opfPath)
                chapterFilePath == decoded.text
                key == SeenKey(idref, chapterFilePath)
            IN IF ~decoded.ok
                 THEN /\ Reject(ErrUri)
                      /\ UNCHANGED <<idx, fullTextContent, seenPaths, readLog>>
               ELSE IF key \in seenPaths
                 THEN /\ idx' = idx + 1
                      /\ UNCHANGED <<pc, fullTextContent, seenPaths, outcome, result,
                                     error, readLog>>
               ELSE LET chapterFile == ZipFile(archive, chapterFilePath) IN
                    /\ seenPaths' = seenPaths \cup {key}
                    /\ idx' = idx + 1
                    /\ IF chapterFile # <<>>
                         THEN /\ readLog' = Append(readLog, Read("chapter", chapterFilePath))
                              /\ fullTextContent' = fullTextContent
                                   \o getHtmlTextContent(chapterFile[1]) \o <<" ">>
                         ELSE UNCHANGED <<readLog, fullTextContent>>
                    /\ UNCHANGED <<pc, outcome, result, error>>
  /\ UNCHANGED <<inputs, opfPath, manifestItems, spineRefs, scores, sortImpl,
                 earlier>>
  /\ UNCHANGED app

\* Array.prototype.sort is a function of the array in one engine: what it
\* returned for an array before, it returns again
SortChoices(hits, impl) ==
  IF \E m \in impl : m.given = hits
    THEN { m.sorted : m \in { n \in impl : n.given = hits } }
    ELSE SortHitsOutcomes(hits)

IsEmptyString(s) == s = <<>>

\* !fullTextContent.trim()
HasNoText(s) == IsBlank(s)

\* steps 4 to 7 and the return: score both tables, aggregate, sort
Finish ==
  /\ pc = "spine"
  /\ idx > Len(spineRefs)
  /\ IF HasNoText(fullTextContent)
       THEN Reject(ErrNoText) /\ UNCHANGED <<scores, sortImpl>>
       ELSE LET genres == ScoreTable(fullTextContent, GENRE_KEYWORDS)
                tags == ScoreTable(fullTextContent, TAG_KEYWORDS)
                allHitsMap == AggregateHits(<<>>, genres \o tags)
                unsorted == HitList(allHitsMap)
            IN \E sortedHits \in SortChoices(unsorted, sortImpl) :
                 /\ allHits' = sortedHits
                 /\ sortImpl' = sortImpl \cup {[given |-> unsorted, sorted |-> sortedHits]}
                 /\ genreResults' = SortResults(genres)
                 /\ tagResults' = SortResults(tags)
                 /\ result' = << [genres |-> genreResults', tags |-> tagResults',
                                  allHits |-> allHits'] >>
                 /\ outcome' = "fulfilled"
                 /\ pc' = "done"
                 /\ UNCHANGED error
  /\ UNCHANGED <<inputs, locals, readLog, earlier>>
  /\ UNCHANGED app

Next == Load \/ LocateContainer \/ ParseOpf \/ SpineStep \/ Finish

\* useState's initial values: the App as mounted
Mounted ==
  /\ file = <<>>
  /\ processingState = "IDLE"
  /\ statusMessage = <<>>
  /\ display = NoResults
  /\ calls = {}
  /\ started = 0

\* the state analyzeEpub starts in, for an input
Start(zip, eng, genreTable, tagTable) ==
  /\ archive = zip
  /\ engine = eng
  /\ GENRE_KEYWORDS = genreTable
  /\ TAG_KEYWORDS = tagTable
  /\ pc = "load"
  /\ opfPath = <<>>
  /\ manifestItems = <<>>
  /\ spineRefs = <<>>
  /\ idx = 1
  /\ fullTextContent = <<>>
  /\ seenPaths = {}
  /\ genreResults = <<>>
  /\ tagResults = <<>>
  /\ allHits = <<>>
  /\ outcome = "pending"
  /\ result = <<>>
  /\ error = ""
  /\ readLog = <<>>
  /\ sortImpl = {}
  /\ earlier = <<>>
  /\ Mounted

KeptSeenPaths(previous) == previous

\* const seenPaths = new Set<string>(): every call makes its own
NewSeenPaths(previous) == {}

\* epubProcessor.analyze called once more on the same file, in the same
\* browser, after the earlier call has settled: every local starts anew
Rerun ==
  /\ pc = "done"
  /\ earlier = <<>>
  /\ earlier' = << [outcome |-> outcome, result |-> result, error |-> error] >>
  /\ pc' = "load"
  /\ opfPath' = <<>>
  /\ manifestItems' = <<>>
  /\ spineRefs' = <<>>
  /\ idx' = 1
  /\ fullTextContent' = <<>>
  /\ seenPaths' = NewSeenPaths(seenPaths)
  /\ genreResults' = <<>>
  /\ tagResults' = <<>>
  /\ allHits' = <<>>
  /\ outcome' = "pending"
  /\ result' = <<>>
  /\ error' = ""
  /\ readLog' = <<>>
  /\ UNCHANGED <<inputs, sortImpl>>
  /\ UNCHANGED app

\* the steps of analyzeEpub, called up to twice
NextRepeated == Next \/ Rerun

\* ---------------------------------------------------------------- the App

\* the files a user can select: two sound books and an archive without
\* META-INF/container.xml
Files == {"a.epub", "b.epub", "broken.epub"}

\* what epubProcessor.analyze settles with for a file
AnalysisOf(f) ==
  IF f = "broken.epub"
    THEN [outcome |-> "rejected", result |-> <<>>, error |-> ErrContainer]
    ELSE LET n == IF f = "a.epub" THEN 1 ELSE 2 IN
         [outcome |-> "fulfilled",
          result |-> << [genres |-> << [name |-> <<"F">>, score |-> n,
                                        hits |-> << [k |-> <<"m","a">>, v |-> n] >>] >>,
                         tags |-> <<>>,
                         allHits |-> << [keyword |-> <<"m","a">>, count |-> JsNum(n)] >>] >>,
          error |-> ""]

\* resetState
resetState ==
  /\ processingState' = "IDLE"
  /\ statusMessage' = <<>>
  /\ display' = NoResults

\* handleFileSelect(selectedFile): FileUpload calls it on a change of its
\* input and on a drop, whatever the processing state
handleFileSelect(selectedFile) ==
  /\ file' = <<selectedFile>>
  /\ resetState
  /\ UNCHANGED <<calls, started>>

\* the user selects or drops a file
SelectFile ==
  /\ \E selectedFile \in Files : handleFileSelect(selectedFile)
  /\ UNCHANGED core

\* disabled={!file || processingState === ProcessingState.PROCESSING}
ButtonDisabled == file = <<>> \/ processingState = "PROCESSING"

\* a click on the Analyze button: handleProcess up to its await
ClickAnalyze ==
  /\ ~ButtonDisabled
  /\ started < MaxCalls
  /\ processingState' = "PROCESSING"
  /\ statusMessage' = <<"Analyzing ePub... this may take a moment.">>
  /\ display' = NoResults
  /\ calls' = calls \cup {[id |-> started + 1, file |-> file[1]]}
  /\ started' = started + 1
  /\ UNCHANGED <<file, core>>

OnRejectedSilently(errorMessage) ==
  /\ statusMessage' = <<"Error: ", errorMessage>>
  /\ UNCHANGED <<processingState, display>>

\* handleProcess after its await, the call fulfilled: the rest of the try block
OnFulfilled(results) ==
  /\ display' = [genreResults |-> results.genres,
                 tagResults |-> results.tags,
                 allHits |-> results.allHits]
  /\ processingState' = "SUCCESS"
  /\ statusMessage' = <<"Analysis complete!">>

\* handleProcess after its await, the call rejected: the catch block
OnRejected(errorMessage) ==
  /\ statusMessage' = <<"Error: ", errorMessage>>
  /\ processingState' = "ERROR"
  /\ UNCHANGED display

\* one call of epubProcessor.analyze settles and its handleProcess goes on
SettleCall(call) ==
  LET settled == AnalysisOf(call.file) IN
  /\ calls' = calls \ {call}
  /\ IF settled.outcome = "fulfilled"
       THEN OnFulfilled(settled.result[1])
       ELSE OnRejected(settled.error)
  /\ UNCHANGED <<file, started, core>>

\* a call of epubProcessor.analyze settles: handleProcess after its await
Settle == \E call \in calls : SettleCall(call)

\* the events of the App: a selection, a click, a settled call
AppNext == SelectFile \/ ClickAnalyze \/ Settle

\* ------------------------------------------------------------ input pools

P(text) == Elem("p", "", <<>>, <<>>, text)
Rootfile(fullPath) == Elem("rootfile", "", fullPath, <<>>, <<>>)
Item(id, href, mediaType) == Elem("item", id, href, mediaType, <<>>)
Itemref(idref) == Elem("itemref", idref, <<>>, <<>>, <<>>)

Xhtml == <<"a","p","p","l","i","c","a","t","i","o","n","/","x","h","t","m","l","+","x","m","l">>
Html == <<"t","e","x","t","/","h","t","m","l">>
HtmlUpper == <<"T","E","X","T","/","H","T","M","L">>
Png == <<"i","m","a","g","e","/","p","n","g">>

\* "Ma ma", "7 ma", "ma 7 constructor"
WordsA == <<"M","a"," ","m","a">>
WordsB == <<"7"," ","m","a">>
WordsC == <<"m","a"," ","7"," ","c","o","n","s","t","r","u","c","t","o","r">>

KwMa == <<"m","a">>
Kw7 == <<"7">>
KwConstructor == <<"c","o","n","s","t","r","u","c","t","o","r">>

OpfRoot == <<"o">>
OpfInDir == <<"d","/","o">>
Dir(opf) == SubSeq(opf, 1, Len(opf) - 1)

\* the tables of the runs that vary the archive
DefaultGenres == << Entry(<<"F">>, <<KwMa>>) >>
DefaultTags == << Entry(<<"T">>, <<KwMa, Kw7>>) >>

SeqsUpTo(S, n) == UNION { [1..k -> S] : k \in 0..n }

\* the manifests drawn: plain; two hrefs of one file (a fragment, a
\* percent-escape); a malformed escape; a non-html item; a repeated id; an
\* upper-case media type; an empty href and an empty id; a query and a dot
\* segment; no item
Manifests ==
  { << Item("i1", <<"a">>, Xhtml), Item("i2", <<"b">>, Html) >>,
    << Item("i1", <<"a","#","f">>, Xhtml), Item("i2", <<"%","6","1">>, Xhtml) >>,
    << Item("i1", <<"a">>, Xhtml), Item("i2", <<"%">>, Xhtml) >>,
    << Item("i1", <<"a">>, Png), Item("i2", <<"b">>, Xhtml) >>,
    << Item("i1", <<"a">>, Xhtml), Item("i1", <<"b">>, Xhtml) >>,
    << Item("i1", <<"a">>, HtmlUpper), Item("i2", <<"b">>, Xhtml) >>,
    << Item("i1", <<>>, Xhtml), Item("", <<"b">>, Xhtml) >>,
    << Item("i1", <<"a","?","q">>, Xhtml), Item("i2", <<".","/","x","/",".",".","/","a">>, Xhtml) >>,
    << >> }

Idrefs == {"i1", "i2", "ix", ""}

Spines == SeqsUpTo(Idrefs, MaxSpine)

OpfDoc(items, spine) == items \o [i \in DOMAIN spine |-> Itemref(spine[i])]

\* the chapter files beside the OPF file: a with text, blank, with text in
\* <head> only, or missing; b with text or missing
ChapterFiles(dir) ==
  { fa \o fb :
      fa \in { <<>>,
               << Entry(dir \o <<"a">>, << P(WordsA) >>) >>,
               << Entry(dir \o <<"a">>, << P(<<" ">>), P(<<"\n">>) >>) >>,
               << Entry(dir \o <<"a">>, << Elem("title", "", <<>>, <<>>, WordsA) >>) >> },
      fb \in { <<>>, << Entry(dir \o <<"b">>, << P(WordsB) >>) >> } }

\* an archive with a sound container and OPF file
ExtractArchive(opf, manifest, spine, chapters) ==
  [loadOk |-> TRUE,
   files |-> << Entry(ContainerPath, << Rootfile(opf) >>),
                Entry(opf, OpfDoc(manifest, spine)) >> \o chapters]

\* runs over every manifest, spine and set of chapter files
ExtractInit ==
  \E opf \in {OpfRoot, OpfInDir}, m \in Manifests, sp \in Spines :
    \E ch \in ChapterFiles(Dir(opf)) :
      Start(ExtractArchive(opf, m, sp, ch), "discard", DefaultGenres, DefaultTags)

ExtractSpec == ExtractInit /\ [][Next]_vars

\* the container descriptors drawn: naming either OPF path; without a
\* rootfile; with an empty first full-path; with two rootfiles; malformed
\* after or before its rootfile; naming the OPF file by a percent-escape,
\* through a dot segment or in the other case
ContainerDocs ==
  { << Rootfile(OpfRoot) >>,
    << Rootfile(OpfInDir) >>,
    << >>,
    << Rootfile(<<>>), Rootfile(OpfRoot) >>,
    << Rootfile(OpfInDir), Rootfile(OpfRoot) >>,
    << Rootfile(OpfRoot), SyntaxError >>,
    << SyntaxError, Rootfile(OpfRoot) >>,
    << Rootfile(<<"%","6","f">>) >>,
    << Rootfile(<<".","/","o">>) >>,
    << Rootfile(<<"O">>) >> }

LowerCasePath(path) == [i \in DOMAIN path |-> ToLower(path[i])]

\* no container entry, one at a path of other case, or one at the exact path
ContainerFiles ==
  { <<>>, << Entry(LowerCasePath(ContainerPath), << Rootfile(OpfRoot) >>) >> }
  \cup { << Entry(ContainerPath, doc) >> : doc \in ContainerDocs }

PlainOpf ==
  OpfDoc(<< Item("i1", <<"a">>, Xhtml), Item("i2", <<"b">>, Html) >>, <<"i1", "i2">>)

MalformedOpf ==
  << Item("i1", <<"a">>, Xhtml), SyntaxError, Itemref("i1") >>

\* an OPF file that breaks off after its spine's itemref
TruncatedOpf ==
  << Item("i1", <<"a">>, Xhtml), Itemref("i1"), SyntaxError >>

OpfFiles ==
  { <<>>,
    << Entry(OpfRoot, PlainOpf) >>,
    << Entry(OpfInDir, PlainOpf) >>,
    << Entry(OpfRoot, PlainOpf), Entry(OpfInDir, OpfDoc(<<>>, <<"i1">>)) >>,
    << Entry(OpfRoot, MalformedOpf) >>,
    << Entry(OpfRoot, TruncatedOpf) >> }

\* a chapter with a style sheet in <head>, a paragraph "7 " and a script
\* in <body>, both holding "ma"
ScriptedChapter ==
  << Elem("style", "", <<>>, <<>>, KwMa),
     P(<<"7", " ">>),
     Elem("script", "", <<>>, <<>>, KwMa) >>

BootChapters ==
  { <<>>,
    << Entry(<<"a">>, ScriptedChapter) >>,
    << Entry(<<"a">>, << P(WordsA) >>), Entry(<<"b">>, << P(WordsB) >>) >>,
    << Entry(<<"a">>, << P(WordsA) >>), Entry(<<"d","/","a">>, << P(WordsB) >>) >> }

\* runs that vary what is found before the spine is reached
Init ==
  \E ok \in BOOLEAN, cf \in ContainerFiles, of \in OpfFiles, ch \in BootChapters,
     eng \in XmlEngines :
    Start([loadOk |-> ok, files |-> cf \o of \o ch], eng, DefaultGenres, DefaultTags)

Spec == Init /\ [][Next]_vars

\* ------------------------------------------------------- tables as input

CategoryNames == { <<"F">>, <<"S">>, <<"2">> }
Keywords == { KwMa, Kw7, KwConstructor }

RECURSIVE TableOf(_, _)
\* the object literal that lists the (category, keyword) pairs in order
TableOf(pairs, table) ==
  IF pairs = <<>> THEN table
  ELSE LET name == Head(pairs)[1]
           kw == Head(pairs)[2]
       IN TableOf(Tail(pairs),
            IF ObjHas(table, name)
              THEN ObjSet(table, name, Append(ObjGetOwn(table, name), kw))
              ELSE Append(table, Entry(name, <<kw>>)))

\* the genre tables drawn: every list of at most MaxEntries pairs
GenrePairs == SeqsUpTo(CategoryNames \X Keywords, MaxEntries)

TagTables ==
  { << >>,
    << Entry(<<"T">>, <<KwMa>>) >>,
    << Entry(<<"T">>, <<KwMa, Kw7>>), Entry(<<"U">>, <<KwConstructor, KwMa>>) >>,
    << Entry(<<"T">>, <<Kw7, Kw7>>), Entry(<<"1">>, <<KwMa>>) >> }

\* an archive whose one chapter holds the text
ArchiveOfText(text) ==
  [loadOk |-> TRUE,
   files |-> << Entry(ContainerPath, << Rootfile(OpfRoot) >>),
                Entry(OpfRoot, OpfDoc(<< Item("i1", <<"a">>, Xhtml) >>, <<"i1">>)),
                Entry(<<"a">>, << P(text) >>) >>]

ScoreInit ==
  \E text \in {WordsB, WordsC}, pairs \in GenrePairs, tagTable \in TagTables :
    Start(ArchiveOfText(text), "discard", TableOf(pairs, <<>>), tagTable)

ScoreSpec == ScoreInit /\ [][Next]_vars

\* two calls on one input: the archives of Init and of ExtractInit that
\* reach the spine, and tables whose keywords do and do not sort by number
RepeatInit ==
  \/ Init
  \/ \E m \in Manifests, ch \in ChapterFiles(Dir(OpfInDir)) :
       Start(ExtractArchive(OpfInDir, m, <<"i1", "i2", "i1">>, ch), "discard",
             DefaultGenres, DefaultTags)
  \/ \E pairs \in GenrePairs, tagTable \in {<<>>, DefaultTags} :
       Start(ArchiveOfText(WordsC), "discard", TableOf(pairs, <<>>), tagTable)

RepeatSpec == RepeatInit /\ [][NextRepeated]_vars

\* the App as mounted, no call of analyzeEpub under way
AppInit == Start(ArchiveOfText(WordsA), "discard", DefaultGenres, DefaultTags)

AppSpec == AppInit /\ [][AppNext]_vars

\* the App when every call of epubProcessor.analyze settles: the promise
\* of a call stays pending until its continuation runs, and nothing but
\* that continuation takes the call away
AppFairSpec ==
  /\ AppInit
  /\ [][AppNext]_vars
  /\ \A id \in 1..MaxCalls :
       WF_vars(\E call \in calls : call.id = id /\ SettleCall(call))

\* the characters of the chapter texts and of the keywords drawn: a letter
\* in both cases, another letter, a character that is no word-constituent,
\* the wildcard
TextChars == {"a", "A", "b", "."}
KeywordChars == {"a", "A", "*", "."}

\* runs that score one keyword against one chapter text, for every text of
\* at most MaxText characters and every keyword of at most MaxKeyword
MatchInit ==
  \E text \in SeqsUpTo(TextChars, MaxText), kw \in SeqsUpTo(KeywordChars, MaxKeyword) :
    Start(ArchiveOfText(text), "discard", << Entry(<<"F">>, <<kw>>) >>, <<>>)

MatchSpec == MatchInit /\ [][Next]_vars

\* ================================================================= claims

Fulfilled == pc = "done" /\ outcome = "fulfilled"

RECURSIVE SumCounts(_, _)
\* the matches of a keyword list in a text, keyword by keyword
SumCounts(text, keywords) ==
  IF keywords = <<>> THEN 0
  ELSE KeywordCount(text, Head(keywords)) + SumCounts(text, Tail(keywords))

\* the places in a result sequence that hold a category's result
ResultsNamed(results, name) == { j \in DOMAIN results : results[j].name = name }

\* a table's categories each have exactly one result
OneResultPerCategory(table, results) ==
  \A i \in DOMAIN table :
    /\ Cardinality(ResultsNamed(results, table[i].k)) = 1
    /\ SumCounts(fullTextContent, table[i].v) = 0 =>
         \A j \in ResultsNamed(results, table[i].k) :
           results[j].score = 0 /\ results[j].hits = <<>>

\* C1 as stated: scoring returns one CategoryResult for every category of
\* the table; a category whose keywords all have zero matches is present
\* with score 0 and empty hits.
C1_EveryCategoryReturned ==
  Fulfilled =>
    /\ OneResultPerCategory(GENRE_KEYWORDS, result[1].genres)
    /\ OneResultPerCategory(TAG_KEYWORDS, result[1].tags)

\* a table's categories with a match have exactly one result, the others none
OnlyMatchedCategories(table, results) ==
  /\ \A i \in DOMAIN table :
       Cardinality(ResultsNamed(results, table[i].k)) =
         IF SumCounts(fullTextContent, table[i].v) > 0 THEN 1 ELSE 0
  /\ \A j \in DOMAIN results :
       /\ results[j].score > 0
       /\ \E i \in DOMAIN table : table[i].k = results[j].name

\* C1 as amended: scoring returns one CategoryResult for every category of
\* the table whose keywords have at least one match in the corpus and none
\* for a category whose keywords all have zero matches; every returned
\* CategoryResult has a positive score.
C1_OnlyMatchedCategoriesReturned ==
  Fulfilled =>
    /\ OnlyMatchedCategories(GENRE_KEYWORDS, result[1].genres)
    /\ OnlyMatchedCategories(TAG_KEYWORDS, result[1].tags)

\* a run that returned one genre and dropped another, whose keyword has no match
C1_Witness ==
  /\ Fulfilled
  /\ Len(GENRE_KEYWORDS) = 2
  /\ Len(result[1].genres) = 1
  /\ \E i \in DOMAIN GENRE_KEYWORDS :
       /\ SumCounts(fullTextContent, GENRE_KEYWORDS[i].v) = 0
       /\ ResultsNamed(result[1].genres, GENRE_KEYWORDS[i].k) = {}

\* the place of a category in its table, as written
TablePos(table, name) == CHOOSE i \in DOMAIN table : table[i].k = name

\* scores never increase and equal scores keep the table's order
SortedStable(table, results) ==
  \A j, k \in DOMAIN results :
    j < k =>
      /\ results[j].score >= results[k].score
      /\ results[j].score = results[k].score =>
           TablePos(table, results[j].name) < TablePos(table, results[k].name)

\* every keyword of both tables in the order it is encountered: genre table
\* before tag table, category order, keyword order
KeywordsInOrder ==
  Flatten([i \in DOMAIN GENRE_KEYWORDS |-> GENRE_KEYWORDS[i].v])
  \o Flatten([i \in DOMAIN TAG_KEYWORDS |-> TAG_KEYWORDS[i].v])

FirstEncounter(keyword) ==
  CHOOSE i \in DOMAIN KeywordsInOrder :
    /\ KeywordsInOrder[i] = keyword
    /\ \A j \in 1..(i - 1) : KeywordsInOrder[j] # keyword

\* C2: genres and tags are ordered by descending score and allHits by
\* descending count, ties keeping the table's category order and the order
\* of first encounter, whatever the category names and keywords are.
C2_DescendingStable ==
  Fulfilled =>
    /\ SortedStable(GENRE_KEYWORDS, result[1].genres)
    /\ SortedStable(TAG_KEYWORDS, result[1].tags)
    /\ \A j, k \in DOMAIN result[1].allHits :
         j < k =>
           LET a == result[1].allHits[j]
               b == result[1].allHits[k]
           IN /\ a.count.t = "num" /\ b.count.t = "num"
              /\ a.count.n >= b.count.n
              /\ a.count.n = b.count.n =>
                   FirstEncounter(a.keyword) < FirstEncounter(b.keyword)

\* the sum of a keyword's counts over the categories that list it
CategoriesListing(table, keyword) ==
  { i \in DOMAIN table : \E n \in DOMAIN table[i].v : table[i].v[n] = keyword }

ExpectedCount(keyword) ==
  KeywordCount(fullTextContent, keyword)
    * ( Cardinality(CategoriesListing(GENRE_KEYWORDS, keyword))
      + Cardinality(CategoriesListing(TAG_KEYWORDS, keyword)) )

\* C3: allHits holds at most one entry per keyword; its count is the sum of
\* the keyword's counts over every genre and tag category where the count is
\* positive; a keyword without a positive count has no entry.
C3_AggregateCounts ==
  Fulfilled =>
    /\ \A j \in DOMAIN result[1].allHits :
         result[1].allHits[j].keyword \in Range(KeywordsInOrder)
    /\ \A keyword \in Range(KeywordsInOrder) :
         LET at == { j \in DOMAIN result[1].allHits :
                       result[1].allHits[j].keyword = keyword }
         IN IF ExpectedCount(keyword) = 0 THEN at = {}
            ELSE /\ Cardinality(at) = 1
                 /\ \A j \in at :
                      result[1].allHits[j].count = JsNum(ExpectedCount(keyword))

\* ---------------------------------------------------------- the archive side

IsChapterRead(r) == r.kind = "chapter"
ChapterReads == SelectSeq(readLog, IsChapterRead)
ContainerWasRead == \E i \in DOMAIN readLog : readLog[i].kind = "container"
OpfWasRead == \E i \in DOMAIN readLog : readLog[i].kind = "opf"

Rejected(msg) == pc = "done" /\ outcome = "rejected" /\ error = msg /\ result = <<>>

\* a spine reference that names a collected manifest item
HasEntry(idref) == idref # "" /\ ObjHas(manifestItems, idref)

RECURSIVE ResolvedPaths(_)
\* the resolved archive paths of the spine references that name an item
ResolvedPaths(refs) ==
  IF refs = <<>> THEN <<>>
  ELSE (IF HasEntry(Head(refs))
          THEN << ChapterFilePath(ObjGetOwn(manifestItems, Head(refs)), opfPath).text >>
          ELSE <<>>)
       \o ResolvedPaths(Tail(refs))

RECURSIVE FirstOccurrences(_)
\* a sequence without the repetitions of its elements
FirstOccurrences(ps) ==
  IF ps = <<>> THEN <<>>
  ELSE LET front == SubSeq(ps, 1, Len(ps) - 1)
       IN IF ps[Len(ps)] \in Range(front)
            THEN FirstOccurrences(front)
            ELSE Append(FirstOccurrences(front), ps[Len(ps)])

InArchive(path) == ZipFile(archive, path) # <<>>

\* the text of the files at the paths, each followed by one space
CorpusOf(paths) ==
  Flatten([i \in DOMAIN paths |->
             getHtmlTextContent(ZipFile(archive, paths[i])[1]) \o <<" ">>])

\* C4: text extraction deduplicates by resolved archive path, not by id:
\* the chapters read are the resolved paths (fragment stripped,
\* percent-decoded) of the spine references processed so far that exist in
\* the archive, each once, at its first occurrence, and the corpus is their
\* text in that order.
C4_DedupByResolvedPath ==
  (pc \in {"spine", "done"} /\ OpfWasRead) =>
    LET processed == SubSeq(spineRefs, 1, idx - 1)
        paths == SelectSeq(FirstOccurrences(ResolvedPaths(processed)), InArchive)
    IN /\ [i \in DOMAIN ChapterReads |-> ChapterReads[i].path] = paths
       /\ fullTextContent = CorpusOf(paths)

\* a finished run over the reading order [i1, i2, i1], whose two ids name one
\* file by a fragment and by a percent-escape, that read the file once
C4_Witness ==
  /\ Fulfilled
  /\ spineRefs = <<"i1", "i2", "i1">>
  /\ HasEntry("i1") /\ HasEntry("i2")
  /\ ObjGetOwn(manifestItems, "i1") # ObjGetOwn(manifestItems, "i2")
  /\ \E i \in DOMAIN ObjGetOwn(manifestItems, "i1") :
       ObjGetOwn(manifestItems, "i1")[i] = "#"
  /\ Len(ChapterReads) = 1

\* C5: a run is atomic for the caller: while it runs nothing is delivered;
\* it ends either fulfilled with genres, tags and allHits together, or
\* rejected with one error and no result.
C5_AtomicOutcome ==
  /\ outcome \in {"pending", "fulfilled", "rejected"}
  /\ (pc = "done") <=> (outcome # "pending")
  /\ outcome = "pending" => result = <<>> /\ error = ""
  /\ outcome = "fulfilled" =>
       /\ error = ""
       /\ result = << [genres |-> genreResults, tags |-> tagResults,
                       allHits |-> allHits] >>
  /\ outcome = "rejected" => result = <<>> /\ error # ""

\* a run rejected after it had read the container, the OPF file and chapters
C5_Witness ==
  /\ Rejected(ErrNoText)
  /\ OpfWasRead
  /\ fullTextContent = <<>>

\* the whole reading order has been processed
LoopFinished == pc = "done" /\ OpfWasRead /\ idx > Len(spineRefs)

\* C6: once the whole reading order has been processed, a corpus that is
\* empty or only whitespace makes the run fail with NoExtractableContent and
\* return no result; so for an empty spine, for a manifest without html
\* items, when every referenced file is missing and when every file read is
\* blank once stripped.
C6_NoExtractableContent ==
  LoopFinished =>
    /\ IsBlank(fullTextContent) => Rejected(ErrNoText)
    /\ ( \/ spineRefs = <<>>
         \/ manifestItems = <<>>
         \/ ChapterReads = <<>>
         \/ \A i \in DOMAIN ChapterReads :
              IsBlank(getHtmlTextContent(ZipFile(archive, ChapterReads[i].path)[1])) )
       => Rejected(ErrNoText)

\* a run that read a chapter, found only whitespace in it, and failed
C6_Witness ==
  /\ Rejected(ErrNoText)
  /\ LoopFinished
  /\ Len(ChapterReads) = 1
  /\ fullTextContent # <<>>

\* a spine reference whose file exists and holds text that is not blank
YieldsText(idref) ==
  /\ HasEntry(idref)
  /\ LET d == ChapterFilePath(ObjGetOwn(manifestItems, idref), opfPath)
     IN /\ d.ok
        /\ InArchive(d.text)
        /\ ~IsBlank(getHtmlTextContent(ZipFile(archive, d.text)[1]))

\* C7: a spine id without manifest entry, a repeated spine reference, a
\* chapter path that is no entry of the archive and a chapter href that
\* cannot be resolved are skipped silently: the run succeeds whenever some
\* spine item yields text that is not blank.
C7_AnomaliesSkipped ==
  (pc = "done" /\ OpfWasRead /\ \E i \in DOMAIN spineRefs : YieldsText(spineRefs[i]))
    => outcome = "fulfilled"

\* C8: without an entry at exactly META-INF/container.xml the run fails with
\* MissingContainer, whatever else the archive holds, and reads neither a
\* manifest nor a chapter.
C8_MissingContainer ==
  (archive.loadOk /\ \A i \in DOMAIN archive.files : archive.files[i].k # ContainerPath)
    => /\ readLog = <<>>
       /\ pc \in {"load", "container", "done"}
       /\ pc = "done" => Rejected(ErrContainer)

\* a failed run on an archive that holds a container descriptor at a path
\* of other case, and an OPF file
C8_Witness ==
  /\ Rejected(ErrContainer)
  /\ \E i \in DOMAIN archive.files : archive.files[i].k = LowerCasePath(ContainerPath)
  /\ \E i \in DOMAIN archive.files : archive.files[i].k = OpfRoot

\* the messages of the errors the taxonomy names besides the malformed ones
OtherErrors == {ErrArchive, ErrContainer, ErrRootfile, ErrOpf, ErrUri, ErrNoText}

\* C9: a container descriptor that is not well-formed XML makes the run fail
\* with MalformedContainer, an error of its own, distinct from
\* MissingRootfilePath.
C9_MalformedContainer ==
  (pc = "done" /\ ContainerWasRead /\ ~IsWellFormed(ZipFile(archive, ContainerPath)[1]))
    => outcome = "rejected" /\ error \notin OtherErrors

\* the root-file declarations of the container document the run parsed
Rootfiles == QuerySelectorAll(ParseXml(ZipFile(archive, ContainerPath)[1], engine),
                              "rootfile")

\* C10: the manifest path is the full-path of the first rootfile, looked up
\* as written; without a rootfile, or with that attribute empty or absent,
\* the run fails with MissingRootfilePath.
C10_FirstRootfilePath ==
  ContainerWasRead =>
    IF Rootfiles = <<>> \/ Rootfiles[1].path = <<>>
      THEN Rejected(ErrRootfile) /\ ~OpfWasRead
      ELSE /\ pc \in {"opf", "spine", "done"}
           /\ opfPath = Rootfiles[1].path
           /\ \A i \in DOMAIN readLog :
                readLog[i].kind = "opf" => readLog[i].path = Rootfiles[1].path
           /\ pc \in {"spine", "done"} =>
                IF InArchive(Rootfiles[1].path) THEN OpfWasRead ELSE Rejected(ErrOpf)

\* a run whose container names ./o while the archive holds o: the path is
\* not resolved and the manifest is not found
C10_Witness ==
  /\ Rejected(ErrOpf)
  /\ opfPath = <<".", "/", "o">>
  /\ InArchive(OpfRoot)

\* the archive holds an entry whose path is exactly this one
HasExactEntry(path) == \E i \in DOMAIN archive.files : archive.files[i].k = path

\* C11: when the manifest path the container names is no entry of the
\* archive, compared exactly and with case, the run fails with
\* ManifestNotFound and reads neither a manifest nor a chapter.
C11_ManifestNotFound ==
  (pc \in {"opf", "spine", "done"} /\ opfPath # <<>> /\ ~HasExactEntry(opfPath))
    => /\ pc \in {"opf", "done"}
       /\ ~OpfWasRead
       /\ ChapterReads = <<>>
       /\ pc = "done" => Rejected(ErrOpf)

\* a failed run whose container names O while the archive holds o and the
\* chapters
C11_Witness ==
  /\ Rejected(ErrOpf)
  /\ opfPath = <<"O">>
  /\ HasExactEntry(OpfRoot)
  /\ HasExactEntry(<<"a">>)

\* C12: an OPF file that exists but is not well-formed XML makes the run
\* fail with MalformedManifest, an error of its own, distinct from
\* NoExtractableContent.
C12_MalformedManifest ==
  (pc = "done" /\ OpfWasRead /\ ~IsWellFormed(ZipFile(archive, opfPath)[1]))
    => outcome = "rejected" /\ error \notin OtherErrors

\* a text with its upper-case letters made lower-case
LowerCased(s) == [i \in DOMAIN s |-> ToLower(s[i])]

\* the item declarations of the OPF document the run parsed
DeclaredItems ==
  QuerySelectorAll(ParseXml(ZipFile(archive, opfPath)[1], engine), "item")

\* an item with an id, an href and a media type that contains "html" in
\* any case
QualifiesAsStated(item) ==
  /\ item.id # ""
  /\ item.path # <<>>
  /\ Includes(LowerCased(item.mt), <<"h","t","m","l">>)

\* C13: a manifest item is collected exactly when its id and href are not
\* empty and its media type contains "html", compared without case; every
\* other item is dropped without an error.
C13_HtmlItemsCollected ==
  (pc \in {"spine", "done"} /\ OpfWasRead) =>
    /\ \A i \in DOMAIN DeclaredItems :
         QualifiesAsStated(DeclaredItems[i]) =>
           ObjHas(manifestItems, DeclaredItems[i].id)
    /\ \A j \in DOMAIN manifestItems :
         \E i \in DOMAIN DeclaredItems :
           /\ DeclaredItems[i].id = manifestItems[j].k
           /\ DeclaredItems[i].path = manifestItems[j].v
           /\ QualifiesAsStated(DeclaredItems[i])
    /\ (pc = "spine" /\ idx = 1) => outcome = "pending"

\* ------------------------------------------------------ the matching side

HasWildcard(keyword) == \E i \in DOMAIN keyword : keyword[i] = "*"

\* the keyword text stands at pos, letters compared without case and each
\* wildcard standing for one word-constituent character
OccursAt(text, keyword, pos) ==
  /\ pos + Len(keyword) - 1 <= Len(text)
  /\ \A j \in DOMAIN keyword :
       IF keyword[j] = "*"
         THEN IsWordChar(text[pos + j - 1])
         ELSE ToLower(text[pos + j - 1]) = ToLower(keyword[j])

\* a word begins at pos
WordBegins(text, pos) ==
  /\ pos <= Len(text)
  /\ IsWordChar(text[pos])
  /\ pos = 1 \/ ~IsWordChar(text[pos - 1])

\* exactly one of the characters before and at pos is a word-constituent
WordEdge(text, pos) ==
  LET inWordBefore == pos > 1 /\ IsWordChar(text[pos - 1])
      inWordAt == pos <= Len(text) /\ IsWordChar(text[pos])
  IN inWordBefore # inWordAt

RECURSIVE CountPlaces(_, _, _, _)
\* the places from pos on, taken left to right without overlap, where the
\* keyword occurs at the beginning of a word (anchor "word") or at a word
\* edge (anchor "edge")
CountPlaces(text, keyword, pos, anchor) ==
  IF pos > Len(text) + 1 THEN 0
  ELSE IF /\ OccursAt(text, keyword, pos)
          /\ IF anchor = "word" THEN WordBegins(text, pos) ELSE WordEdge(text, pos)
    THEN 1 + CountPlaces(text, keyword,
                         IF keyword = <<>> THEN pos + 1 ELSE pos + Len(keyword), anchor)
    ELSE CountPlaces(text, keyword, pos + 1, anchor)

\* the count a result sequence reports for a keyword of a category
ReportedCount(results, name, keyword) ==
  IF ResultsNamed(results, name) = {} THEN 0
  ELSE LET hits == results[CHOOSE j \in ResultsNamed(results, name) : TRUE].hits
       IN IF ObjHas(hits, keyword) THEN ObjGetOwn(hits, keyword) ELSE 0

\* the (category, keyword) pairs a table lists
ListedKeywords(table) ==
  UNION { { <<table[i].k, table[i].v[n]>> : n \in DOMAIN table[i].v } :
          i \in DOMAIN table }

\* C14 as stated: the count of a keyword without wildcard is the number of
\* places, without overlap, where the keyword text occurs, compared without
\* case, at the beginning of a word: a word that begins with the keyword
\* counts, an occurrence inside or at the end of a word does not.
C14_PrefixAtWordStart ==
  Fulfilled =>
    \A ck \in ListedKeywords(GENRE_KEYWORDS) :
      ~HasWildcard(ck[2]) =>
        ReportedCount(result[1].genres, ck[1], ck[2])
          = CountPlaces(fullTextContent, ck[2], 1, "word")

\* C15: each wildcard of a keyword stands for exactly one word-constituent
\* character at its place, never none and never two; a keyword that ends
\* in a wildcard does not match its stem followed by a character that is no
\* word-constituent.
C15_WildcardOneWordChar ==
  Fulfilled =>
    \A ck \in ListedKeywords(GENRE_KEYWORDS) :
      HasWildcard(ck[2]) =>
        ReportedCount(result[1].genres, ck[1], ck[2])
          = CountPlaces(fullTextContent, ck[2], 1, "edge")

\* the keyword "a*" scored on "a.ab": the stem before "." is not counted,
\* the word "ab" is
C15_Witness ==
  /\ Fulfilled
  /\ GENRE_KEYWORDS = << Entry(<<"F">>, << <<"a", "*">> >>) >>
  /\ fullTextContent = <<"a", ".", "a", "b", " ">>
  /\ ReportedCount(result[1].genres, <<"F">>, <<"a", "*">>) = 1

\* the text a reader sees in a chapter: that of its elements in <body>
\* other than script and style
VisibleText(content) ==
  LET Shown(e) == e.name \notin {"script", "style", "title", "meta", "link"}
      shown == SelectSeq(content, Shown)
  IN Flatten([i \in DOMAIN shown |-> shown[i].text])

\* the visible text of the chapters read, each followed by one space
VisibleCorpus ==
  Flatten([i \in DOMAIN ChapterReads |->
             VisibleText(ZipFile(archive, ChapterReads[i].path)[1]) \o <<" ">>])

\* C16: the text extracted from a chapter is its visible text only: the
\* content of its script and style elements never enters the corpus, and a
\* keyword that occurs only there has count 0.
C16_VisibleTextOnly ==
  /\ (pc \in {"spine", "done"} /\ OpfWasRead) => fullTextContent = VisibleCorpus
  /\ Fulfilled =>
       \A ck \in ListedKeywords(GENRE_KEYWORDS) :
         KeywordCount(VisibleCorpus, ck[2]) = 0 =>
           ReportedCount(result[1].genres, ck[1], ck[2]) = 0

\* the html-typed declarations of an id, in document order
DeclarationsOf(id) ==
  LET Declares(item) == item.id = id /\ IsHtmlItem(item)
  IN SelectSeq(DeclaredItems, Declares)

\* the href of the last html-typed declaration of an id
LastHref(id) == DeclarationsOf(id)[Len(DeclarationsOf(id))].path

\* C18: when html-typed manifest items declare the same id, the last
\* declaration wins: a spine reference to the id resolves to the href of the
\* last such item, and no chapter is read but through such an href.
C18_LastDeclarationWins ==
  (pc \in {"spine", "done"} /\ OpfWasRead) =>
    /\ \A i \in DOMAIN DeclaredItems :
         IsHtmlItem(DeclaredItems[i]) =>
           /\ ObjHas(manifestItems, DeclaredItems[i].id)
           /\ ObjGetOwn(manifestItems, DeclaredItems[i].id) = LastHref(DeclaredItems[i].id)
    /\ \A r \in DOMAIN ChapterReads :
         \E n \in 1..(idx - 1) :
           /\ HasEntry(spineRefs[n])
           /\ DeclarationsOf(spineRefs[n]) # <<>>
           /\ ChapterReads[r].path
                = ChapterFilePath(LastHref(spineRefs[n]), opfPath).text

\* a finished run over a manifest that declares i1 twice, for a and then
\* for b, both in the archive: only b was read
C18_Witness ==
  /\ pc = "done"
  /\ OpfWasRead
  /\ Len(DeclarationsOf("i1")) = 2
  /\ DeclarationsOf("i1")[1].path = <<"a">>
  /\ InArchive(ChapterFilePath(<<"a">>, opfPath).text)
  /\ Len(ChapterReads) = 1
  /\ ChapterReads[1].path = ChapterFilePath(<<"b">>, opfPath).text

RECURSIVE SumHits(_)
\* the sum of the counts a hits object stores
SumHits(hits) == IF hits = <<>> THEN 0 ELSE Head(hits).v + SumHits(Tail(hits))

\* hits holds positive counts only and the score is their sum
HitsMakeScore(results) ==
  \A j \in DOMAIN results :
    /\ \A h \in DOMAIN results[j].hits : results[j].hits[h].v > 0
    /\ results[j].score = SumHits(results[j].hits)

\* C19: in every CategoryResult, for every table, a category whose keyword
\* list repeats a keyword included, hits holds only keywords with a
\* positive count and score is the sum of the counts stored in hits.
C19_ScoreIsSumOfHits ==
  Fulfilled => HitsMakeScore(result[1].genres) /\ HitsMakeScore(result[1].tags)

\* ------------------------------------------------------ repeated calls

C20_OneAnalysisInFlight == Cardinality(calls) <= 1

\* what the App holds after the analysis of a file fulfilled
ResultsOf(f) ==
  LET settled == AnalysisOf(f) IN
  [genreResults |-> settled.result[1].genres,
   tagResults |-> settled.result[1].tags,
   allHits |-> settled.result[1].allHits]

\* C21: whenever processingState is SUCCESS, the genreResults, tagResults
\* and allHits the App holds were computed from the file that is selected:
\* a file selected while an analysis of an earlier file is pending is never
\* displayed together with the earlier file's results.
C21_ResultsOfSelectedFile ==
  processingState = "SUCCESS" =>
    /\ file # <<>>
    /\ AnalysisOf(file[1]).outcome = "fulfilled"
    /\ display = ResultsOf(file[1])

\* C22: in every reachable state where processingState is IDLE, PROCESSING
\* or ERROR, genreResults, tagResults and allHits are all empty: results
\* are held only in state SUCCESS.
C22_ResultsOnlyInSuccess ==
  processingState \in {"IDLE", "PROCESSING", "ERROR"} => display = NoResults

\* C23: processingState never stays PROCESSING forever: when every call of
\* epubProcessor.analyze settles, a state PROCESSING is followed by a state
\* SUCCESS or ERROR, and each call handleProcess started is followed by a
\* state where it has settled and processingState is SUCCESS or ERROR,
\* also when files are selected while the call is pending.
C23_ProcessingEnds ==
  /\ (processingState = "PROCESSING") ~>
       (processingState \in {"SUCCESS", "ERROR"})
  /\ \A id \in 1..MaxCalls :
       (\E call \in calls : call.id = id) ~>
         (/\ \A call \in calls : call.id # id
          /\ processingState \in {"SUCCESS", "ERROR"})

\* the analysis of broken.epub rejected after another file was selected
\* while it was pending, and no call is left in flight
C23_Witness ==
  /\ processingState = "ERROR"
  /\ calls = {}
  /\ started >= 1
  /\ file # <<>>
  /\ file[1] # "broken.epub"

====
